---- MODULE Spec2Model ----
(***************************************************************************)
(* MoveLinesCommand (vs/editor/contrib/linesOperations/browser):           *)
(* one command per selection moves a batch of lines up or down by one     *)
(* line.  The model follows the last revision of the command in           *)
(* moveLinesCommand.ts (lines 714-1059).                                   *)
(*                                                                         *)
(* A string is a sequence of one-character strings, a document is a       *)
(* sequence of lines, a position is <<line, column>> (both 1-based) and a *)
(* range or selection is a record sl, sc, el, ec.                          *)
(***************************************************************************)
EXTENDS Integers, Sequences, FiniteSets, TLC

\* ------------------------------------------------------------------ bounds

\* The largest number of lines of a document.
MaxLines == 3

\* The largest number of calls a command makes on the edit builder in one
\* getEditOperations.
MaxCalls == 3

\* The lines a document is built from: blank, whitespace-only, unindented
\* and indented text.
LineSet == { <<>>, <<"a">>, <<" ", "b">> }

\* ------------------------------------------------------- strings (base/common)

EOL == "\n"

IsWhitespace(ch) == ch \in {" ", "\t"}

\* strings.getLeadingWhitespace: the longest prefix of spaces and tabs.
RECURSIVE getLeadingWhitespace(_)
getLeadingWhitespace(str) ==
    IF str = <<>> \/ ~IsWhitespace(Head(str))
    THEN <<>>
    ELSE <<Head(str)>> \o getLeadingWhitespace(Tail(str))

\* strings.lastNonWhitespaceIndex: 0-based index of the last character that
\* is no space or tab, -1 when there is none.
RECURSIVE lastNonWhitespaceIndex(_)
lastNonWhitespaceIndex(str) ==
    IF str = <<>>
    THEN -1
    ELSE IF ~IsWhitespace(str[Len(str)])
         THEN Len(str) - 1
         ELSE lastNonWhitespaceIndex(SubSeq(str, 1, Len(str) - 1))

\* ---------------------------------------------------- the text model (read)

getLineCount(lines) == Len(lines)

ValidLine(lines, lineNumber) == lineNumber >= 1 /\ lineNumber <= Len(lines)

\* Only called with a valid line number.
getLineContent(lines, lineNumber) == lines[lineNumber]

getLineMaxColumn(lines, lineNumber) == Len(lines[lineNumber]) + 1

\* The whole text: the lines joined by EOL.
RECURSIVE JoinLines(_)
JoinLines(lines) ==
    IF Len(lines) = 0 THEN <<>>
    ELSE IF Len(lines) = 1 THEN lines[1]
    ELSE lines[1] \o <<EOL>> \o JoinLines(Tail(lines))

\* The lines of a text: split at every EOL.
RECURSIVE SplitLines(_, _)
SplitLines(text, cur) ==
    IF text = <<>>
    THEN <<cur>>
    ELSE IF Head(text) = EOL
         THEN <<cur>> \o SplitLines(Tail(text), <<>>)
         ELSE SplitLines(Tail(text), Append(cur, Head(text)))

\* Number of characters before position <<line, col>> in the joined text.
RECURSIVE OffsetAt(_, _, _)
OffsetAt(lines, line, col) ==
    IF line = 1
    THEN col - 1
    ELSE Len(lines[1]) + 1 + OffsetAt(Tail(lines), line - 1, col)

Range(sl, sc, el, ec) == [sl |-> sl, sc |-> sc, el |-> el, ec |-> ec]

\* model.getValueInRange for a range inside the document.
getValueInRange(lines, r) ==
    SubSeq(JoinLines(lines), OffsetAt(lines, r.sl, r.sc) + 1, OffsetAt(lines, r.el, r.ec))

\* ------------------------------------------- the edit builder and the engine

\* builder.addEditOperation(range, text): text = null is kept apart from ''.
EditOp(range, text) == [range |-> range, text |-> text, nullText |-> FALSE]
NullEditOp(range) == [range |-> range, text |-> <<>>, nullText |-> TRUE]

\* Range.isEmpty
IsEmptyRange(r) == r.sl = r.el /\ r.sc = r.ec

PosBefore(l1, c1, l2, c2) == l1 < l2 \/ (l1 = l2 /\ c1 < c2)

\* Two ranges overlap when each starts strictly before the other ends; ranges
\* that only touch, and an empty range at the edge of another, do not.
RangesOverlap(r1, r2) ==
    /\ PosBefore(r1.sl, r1.sc, r2.el, r2.ec)
    /\ PosBefore(r2.sl, r2.sc, r1.el, r1.ec)

\* Some two edits of the list overlap.
HasOverlap(edits) ==
    \E i, j \in 1..Len(edits) : i < j /\ RangesOverlap(edits[i].range, edits[j].range)

\* A range lies inside the document: lines in 1..line count, columns in
\* 1..max column of their line.
RangeInDocument(lines, r) ==
    /\ ValidLine(lines, r.sl) /\ ValidLine(lines, r.el)
    /\ r.sc >= 1 /\ r.sc <= getLineMaxColumn(lines, r.sl)
    /\ r.ec >= 1 /\ r.ec <= getLineMaxColumn(lines, r.el)

\* The text model clamps a position into the document before it edits.
ValidateLine(lines, line) ==
    IF line < 1 THEN 1 ELSE IF line > Len(lines) THEN Len(lines) ELSE line

ValidateColumn(lines, line, col) ==
    IF line < 1 THEN 1
    ELSE IF line > Len(lines) THEN getLineMaxColumn(lines, Len(lines))
    ELSE IF col < 1 THEN 1
    ELSE IF col > getLineMaxColumn(lines, line) THEN getLineMaxColumn(lines, line)
    ELSE col

ValidateRange(lines, r) ==
    Range(ValidateLine(lines, r.sl), ValidateColumn(lines, r.sl, r.sc),
          ValidateLine(lines, r.el), ValidateColumn(lines, r.el, r.ec))

\* An edit as offsets into the joined text.
EditOffsets(lines, e) ==
    LET r == ValidateRange(lines, e.range)
    IN  [from |-> OffsetAt(lines, r.sl, r.sc), to |-> OffsetAt(lines, r.el, r.ec), text |-> e.text]

\* Edit i sorts after edit j: by range end, then range start, then call order.
SortsAfter(offs, i, j) ==
    \/ offs[i].to > offs[j].to
    \/ offs[i].to = offs[j].to /\ offs[i].from > offs[j].from
    \/ offs[i].to = offs[j].to /\ offs[i].from = offs[j].from /\ i > j

\* The edits are applied from the last in sort order to the first, each on
\* offsets of the original text.
RECURSIVE ApplyOffsets(_, _, _)
ApplyOffsets(text, offs, todo) ==
    IF todo = {}
    THEN text
    ELSE LET i == CHOOSE k \in todo : \A j \in todo \ {k} : SortsAfter(offs, k, j)
             t == SubSeq(text, 1, offs[i].from) \o offs[i].text
                    \o SubSeq(text, offs[i].to + 1, Len(text))
         IN  ApplyOffsets(t, offs, todo \ {i})

\* One atomic transaction on the document: the lines after all edits.
ApplyEdits(lines, edits) ==
    LET offs == [i \in 1..Len(edits) |-> EditOffsets(lines, edits[i])]
    IN  SplitLines(ApplyOffsets(JoinLines(lines), offs, 1..Len(edits)), <<>>)

\* --------------------------------------------------------- indent arithmetic

\* model.getOptions(): tabSize, indentSize, insertSpaces.
OptionsSet == { [tabSize |-> 2, indentSize |-> 2, insertSpaces |-> TRUE] }

\* indentUtils.getSpaceCnt: a tab counts tabSize, any other character 1.
RECURSIVE getSpaceCnt(_, _)
getSpaceCnt(str, tabSize) ==
    IF str = <<>> THEN 0
    ELSE (IF Head(str) = "\t" THEN tabSize ELSE 1) + getSpaceCnt(Tail(str), tabSize)

RECURSIVE Repeat(_, _)
Repeat(ch, n) == IF n <= 0 THEN <<>> ELSE <<ch>> \o Repeat(ch, n - 1)

\* indentUtils.generateIndent: canonical whitespace of a space count; a
\* negative count gives the empty string.
generateIndent(spacesCnt, tabSize, insertSpaces) ==
    LET cnt == IF spacesCnt < 0 THEN 0 ELSE spacesCnt
    IN  IF insertSpaces
        THEN Repeat(" ", cnt)
        ELSE Repeat("\t", cnt \div tabSize) \o Repeat(" ", cnt % tabSize)

\* indentConverter.unshiftIndent (ShiftCommand.unshiftIndent at the end of
\* the indentation): back to the previous indent stop.
unshiftIndent(indentation, opts) ==
    LET visible == getSpaceCnt(indentation, opts.tabSize)
    IN  IF opts.insertSpaces
        THEN LET stop == IF visible = 0 THEN 0
                         ELSE visible - 1 - ((visible - 1) % opts.indentSize)
             IN  Repeat(" ", stop)
        ELSE LET stop == IF visible = 0 THEN 0
                         ELSE visible - 1 - ((visible - 1) % opts.tabSize)
             IN  Repeat("\t", stop \div opts.tabSize)

\* ------------------------------------------------------- the oracles' answers

\* EditorAutoIndentStrategy, in its order None < Keep < Brackets < Advanced < Full.
StrategyRank == [None |-> 0, Keep |-> 1, Brackets |-> 2, Advanced |-> 3, Full |-> 4]

\* The strategies a command is constructed with.
StrategySet == {"Advanced", "Full"}

\* A nullable value: <<>> is null, <<v>> is v.
Null == <<>>
Some(v) == <<v>>

\* The element of a set of one element: {F(x) : x \in {e}} computes e once,
\* however often F uses it.
Only(S) == CHOOSE x \in S : TRUE

\* getEnterAction: null or a CompleteEnterAction.
NoEnter == [indentAction |-> "null", indentation |-> <<>>, appendText |-> <<>>]

EnterActionSet ==
    {NoEnter} \cup
    [indentAction : {"None", "Indent", "IndentOutdent", "Outdent"},
     indentation : {<<>>, <<" ", " ">>},
     appendText : {<<>>, <<"b">>}]

\* getIndentMetadata: null or a bit mask; only DECREASE_MASK is read.
IndentMetadataSet == {"null", "none", "decrease"}

\* getGoodIndentForLine: null or an indentation.
GoodIndentSet == {Null, Some(<<>>)}

\* --------------------------------------------------------- MoveLinesCommand

\* The regular expression class \s of trimLeft.
IsRegexSpace(ch) == ch \in {" ", "\t", EOL}

RECURSIVE trimLeft(_)
trimLeft(str) ==
    IF str = <<>> \/ ~IsRegexSpace(Head(str)) THEN str ELSE trimLeft(Tail(str))

\* String.indexOf(needle) >= 0
Contains(hay, needle) ==
    \E k \in 0..(Len(hay) - Len(needle)) : SubSeq(hay, k + 1, k + Len(needle)) = needle

\* getIndentEditsOfMovingBlock without the column test of line 1036: the flag
\* is set whenever the indentation of the selection's end line becomes empty.
RECURSIVE IndentEditsFrom_NoColumnTest(_, _, _, _, _)
IndentEditsFrom_NoColumnTest(lines, s, opts, offset, i) ==
    IF i > s.el
    THEN [ops |-> <<>>, shrink |-> FALSE]
    ELSE LET lineContent == getLineContent(lines, i)
             originalIndent == getLeadingWhitespace(lineContent)
             originalSpacesCnt == getSpaceCnt(originalIndent, opts.tabSize)
             newSpacesCnt == originalSpacesCnt + offset
             newIndent == generateIndent(newSpacesCnt, opts.tabSize, opts.insertSpaces)
             rest == IndentEditsFrom_NoColumnTest(lines, s, opts, offset, i + 1)
         IN  IF newIndent # originalIndent
             THEN [ops |-> <<EditOp(Range(i, 1, i, Len(originalIndent) + 1), newIndent)>> \o rest.ops,
                   shrink |-> rest.shrink \/ (i = s.el /\ newIndent = <<>>)]
             ELSE rest

\* getIndentEditsOfMovingBlock for the lines from i to the selection's end:
\* the edits it adds and whether it sets _moveEndLineSelectionShrink.
RECURSIVE IndentEditsFrom(_, _, _, _, _)
IndentEditsFrom(lines, s, opts, offset, i) ==
    IF i > s.el
    THEN [ops |-> <<>>, shrink |-> FALSE]
    ELSE LET lineContent == getLineContent(lines, i)
             originalIndent == getLeadingWhitespace(lineContent)
             originalSpacesCnt == getSpaceCnt(originalIndent, opts.tabSize)
             newSpacesCnt == originalSpacesCnt + offset
             newIndent == generateIndent(newSpacesCnt, opts.tabSize, opts.insertSpaces)
             rest == IndentEditsFrom(lines, s, opts, offset, i + 1)
         IN  IF newIndent # originalIndent
             THEN [ops |-> <<EditOp(Range(i, 1, i, Len(originalIndent) + 1), newIndent)>> \o rest.ops,
                   shrink |-> \/ rest.shrink
                              \/ (i = s.el /\ s.ec <= Len(originalIndent) + 1 /\ newIndent = <<>>)]
             ELSE rest

getIndentEditsOfMovingBlock(lines, s, opts, offset) ==
    IndentEditsFrom(lines, s, opts, offset, s.sl)

\* parseEnterResult: the space count delta, or null.
parseEnterResult(lines, opts, line, enter, meta) ==
    IF enter = NoEnter
    THEN Null
    ELSE LET enterPrefix ==
                 CASE enter.indentAction = "None" -> enter.indentation \o enter.appendText
                   [] enter.indentAction = "Indent" -> enter.indentation \o enter.appendText
                   [] enter.indentAction = "IndentOutdent" -> enter.indentation
                   [] enter.indentAction = "Outdent" ->
                          unshiftIndent(enter.indentation, opts) \o enter.appendText
             movingLineText == getLineContent(lines, line)
         IN  IF Contains(trimLeft(movingLineText), trimLeft(enterPrefix))
             THEN LET oldIndentation == getLeadingWhitespace(getLineContent(lines, line))
                      prefixIndentation == getLeadingWhitespace(enterPrefix)
                      newIndentation == IF meta = "decrease"
                                        THEN unshiftIndent(prefixIndentation, opts)
                                        ELSE prefixIndentation
                  IN  Some(getSpaceCnt(newIndentation, opts.tabSize)
                             - getSpaceCnt(oldIndentation, opts.tabSize))
             ELSE Null

\* The first line at or above `from` that is not blank, 0 when there is none.
RECURSIVE ValidPrecedingLine(_, _)
ValidPrecedingLine(lines, from) ==
    IF from < 1 THEN 0
    ELSE IF lastNonWhitespaceIndex(getLineContent(lines, from)) >= 0 THEN from
    ELSE ValidPrecedingLine(lines, from - 1)

\* matchEnterRuleMovingDown: the line whose end the enter oracle is asked
\* at, 0 when it is not asked.
EnterQueryLineMovingDown(lines, line, nextLine, nextLineText) ==
    IF lastNonWhitespaceIndex(nextLineText) >= 0
    THEN nextLine
    ELSE LET validPrecedingLine == ValidPrecedingLine(lines, line - 1)
         IN  IF validPrecedingLine < 1 \/ line > getLineCount(lines) THEN 0 ELSE validPrecedingLine

matchEnterRuleMovingDown(lines, opts, line, nextLine, nextLineText, enter, meta) ==
    IF EnterQueryLineMovingDown(lines, line, nextLine, nextLineText) = 0
    THEN Null
    ELSE parseEnterResult(lines, opts, line, enter, meta)

\* matchEnterRuleMoveingUp: as above; the text of prevLine is the one handed in.
RECURSIVE ValidPrecedingLineUp(_, _, _, _)
ValidPrecedingLineUp(lines, prevLine, prevLineText, from) ==
    IF from < 1 THEN 0
    ELSE LET lineContent == IF from = prevLine THEN prevLineText ELSE getLineContent(lines, from)
         IN  IF lastNonWhitespaceIndex(lineContent) >= 0 THEN from
             ELSE ValidPrecedingLineUp(lines, prevLine, prevLineText, from - 1)

EnterQueryLineMovingUp(lines, line, prevLine, prevLineText) ==
    LET validPrecedingLine == ValidPrecedingLineUp(lines, prevLine, prevLineText, prevLine)
    IN  IF validPrecedingLine < 1 \/ line > getLineCount(lines) THEN 0 ELSE validPrecedingLine

matchEnterRuleMoveingUp(lines, opts, line, prevLine, prevLineText, enter, meta) ==
    IF EnterQueryLineMovingUp(lines, line, prevLine, prevLineText) = 0
    THEN Null
    ELSE parseEnterResult(lines, opts, line, enter, meta)

\* shouldAutoIndent without the comparison of the two language ids (lines
\* 1014-1016 left out).
shouldAutoIndent_NoLanguageCheck(autoIndent, cheap, languageAtSelectionStart, languageAtSelectionEnd, indentRulesSupport) ==
    IF StrategyRank[autoIndent] < StrategyRank["Full"] THEN FALSE
    ELSE IF ~cheap THEN FALSE
    ELSE IF indentRulesSupport = "null" THEN FALSE
    ELSE TRUE

\* shouldAutoIndent (lines 1003-1023) on the answers of isCheapToTokenize,
\* getLanguageIdAtPosition (start line, end line) and indentRulesSupport.
shouldAutoIndent(autoIndent, cheap, languageAtSelectionStart, languageAtSelectionEnd, indentRulesSupport) ==
    IF StrategyRank[autoIndent] < StrategyRank["Full"] THEN FALSE
    ELSE IF ~cheap THEN FALSE
    ELSE IF languageAtSelectionStart # languageAtSelectionEnd THEN FALSE
    ELSE IF indentRulesSupport = "null" THEN FALSE
    ELSE TRUE

\* virtualModel.getLineContent: the line of the live document it reads, which
\* may lie outside the document.
VirtualSourceLine(isMovingDown, srcStartLine, srcEndLine, prevLine, nextLine, lineNumber) ==
    IF isMovingDown
    THEN IF lineNumber = srcStartLine THEN nextLine
         ELSE IF lineNumber <= nextLine THEN lineNumber + 1
         ELSE lineNumber
    ELSE IF lineNumber = srcEndLine THEN prevLine
         ELSE IF lineNumber >= prevLine THEN lineNumber - 1
         ELSE lineNumber

\* The loop over the affected lines from i on (indent rule fallback, lines
\* 871-890): `good` maps each affected line to the answer of
\* getGoodIndentForLine.
\*   threw     the virtual model read a line outside the document, which the
\*             text model answers with an error
\*   asked     the lines getGoodIndentForLine was asked for
\*   answered  those of them it gave an indentation for
\*   deltas    the offsets handed to getIndentEditsOfMovingBlock, in call
\*             order, each with the affected line it was measured at
NoIndentRules == [ops |-> <<>>, shrink |-> FALSE, threw |-> FALSE, asked |-> {},
                  answered |-> {}, deltas |-> <<>>]

\* The loop with an edit for every affected line itself, as in the revisions
\* before (lines 153-185, 512-544): the passed-over line is re-indented too.
IndentRulesStep_PerLine(lines, s, opts, isMovingDown, batch, lineIndent, i, next) ==
    IF lineIndent = Null
    THEN [next EXCEPT !.asked = @ \cup {i}]
    ELSE LET oldIndent == getLeadingWhitespace(getLineContent(lines, i))
             newSpaceCnt == getSpaceCnt(lineIndent[1], opts.tabSize)
             oldSpaceCnt == getSpaceCnt(oldIndent, opts.tabSize)
             here == IF newSpaceCnt # oldSpaceCnt
                     THEN <<EditOp(Range(i, 1, i, Len(oldIndent) + 1),
                                   generateIndent(newSpaceCnt, opts.tabSize, opts.insertSpaces))>>
                     ELSE <<>>
             delta == IF newSpaceCnt # oldSpaceCnt
                      THEN <<[line |-> i, d |-> newSpaceCnt - oldSpaceCnt]>>
                      ELSE <<>>
         IN  [ops |-> here \o next.ops,
              shrink |-> next.shrink,
              threw |-> next.threw,
              asked |-> next.asked \cup {i},
              answered |-> next.answered \cup {i},
              deltas |-> delta \o next.deltas]

RECURSIVE IndentRulesFrom_PerLine(_, _, _, _, _, _, _, _)
IndentRulesFrom_PerLine(lines, s, opts, isMovingDown, batch, good, i, affectedEndLine) ==
    IF i > affectedEndLine
    THEN NoIndentRules
    ELSE Only({IndentRulesStep_PerLine(lines, s, opts, isMovingDown, batch, good[i], i, next) :
                  next \in {IndentRulesFrom_PerLine(lines, s, opts, isMovingDown, batch, good,
                                                    i + 1, affectedEndLine)}})

\* One turn of the loop for the affected line i (lines 872-889): lineIndent
\* is the answer of getGoodIndentForLine, next what the turns after it do.
IndentRulesStep(lines, s, opts, isMovingDown, batch, lineIndent, i, next) ==
    IF lineIndent = Null
    THEN [next EXCEPT !.asked = @ \cup {i}]
    ELSE LET src == VirtualSourceLine(isMovingDown, batch.startLineNumber,
                                      batch.endLineNumberExclusive - 1,
                                      batch.startLineNumber - 1,
                                      batch.endLineNumberExclusive, i)
         IN  IF ~ValidLine(lines, src)
             THEN [NoIndentRules EXCEPT !.threw = TRUE, !.asked = {i}, !.answered = {i}]
             ELSE LET oldIndent == getLeadingWhitespace(getLineContent(lines, src))
                      newSpaceCnt == getSpaceCnt(lineIndent[1], opts.tabSize)
                      oldSpaceCnt == getSpaceCnt(oldIndent, opts.tabSize)
                      here == IF newSpaceCnt # oldSpaceCnt
                              THEN getIndentEditsOfMovingBlock(lines, s, opts,
                                                               newSpaceCnt - oldSpaceCnt)
                              ELSE [ops |-> <<>>, shrink |-> FALSE]
                      delta == IF newSpaceCnt # oldSpaceCnt
                               THEN <<[line |-> i, d |-> newSpaceCnt - oldSpaceCnt]>>
                               ELSE <<>>
                  IN  [ops |-> here.ops \o next.ops,
                       shrink |-> here.shrink \/ next.shrink,
                       threw |-> next.threw,
                       asked |-> next.asked \cup {i},
                       answered |-> next.answered \cup {i},
                       deltas |-> delta \o next.deltas]

\* The loop without the test of line 880: a null answer is read as the empty
\* indentation.
RECURSIVE IndentRulesFrom_NoNullCheck(_, _, _, _, _, _, _, _)
IndentRulesFrom_NoNullCheck(lines, s, opts, isMovingDown, batch, good, i, affectedEndLine) ==
    IF i > affectedEndLine
    THEN NoIndentRules
    ELSE Only({[IndentRulesStep(lines, s, opts, isMovingDown, batch, Some(<<>>), i, next)
                   EXCEPT !.answered = next.answered \cup (IF good[i] = Null THEN {} ELSE {i})] :
                  next \in {IndentRulesFrom_NoNullCheck(lines, s, opts, isMovingDown, batch, good,
                                                        i + 1, affectedEndLine)}})

RECURSIVE IndentRulesFrom(_, _, _, _, _, _, _, _)
IndentRulesFrom(lines, s, opts, isMovingDown, batch, good, i, affectedEndLine) ==
    IF i > affectedEndLine
    THEN NoIndentRules
    ELSE Only({IndentRulesStep(lines, s, opts, isMovingDown, batch, good[i], i, next) :
                  next \in {IndentRulesFrom(lines, s, opts, isMovingDown, batch, good,
                                            i + 1, affectedEndLine)}})

\* The edit that removes the moved text (lines 792-802).
RemoveEdit(lines, isMovingDown, batch) ==
    LET srcStartLine == batch.startLineNumber
        srcEndLine == batch.endLineNumberExclusive - 1
        srcEndLineLen == getLineMaxColumn(lines, srcEndLine)
        prevLine == batch.startLineNumber - 1
        nextLine == batch.endLineNumberExclusive
    IN  IF isMovingDown
        THEN NullEditOp(Range(srcStartLine, 1, nextLine, 1))
        ELSE NullEditOp(Range(prevLine, getLineMaxColumn(lines, prevLine), srcEndLine, srcEndLineLen))

\* The edit that inserts it again (lines 804-814).
InsertEdit(lines, isMovingDown, batch) ==
    LET srcStartLine == batch.startLineNumber
        srcEndLine == batch.endLineNumberExclusive - 1
        srcEndLineLen == getLineMaxColumn(lines, srcEndLine)
        text == getValueInRange(lines, Range(srcStartLine, 1, srcEndLine, srcEndLineLen))
    IN  IF isMovingDown
        THEN LET dstLine == batch.startLineNumber - 1
             IN  EditOp(Range(dstLine, 1, dstLine, 1), <<EOL>> \o text)
        ELSE LET dstLine == batch.endLineNumberExclusive
             IN  EditOp(Range(dstLine, 1, dstLine, 1), text \o <<EOL>>)

\* The boundary checks of lines 746-756.
IsBoundary(lines, isMovingDown, batch) ==
    \/ isMovingDown /\ batch.endLineNumberExclusive - 1 = getLineCount(lines)
    \/ ~isMovingDown /\ batch.startLineNumber = 1

\* What one call of getEditOperations does to the builder and the command:
\*   ops       the edits handed to addEditOperation, in call order
\*   keepToken whether the token of the (only) trackSelection call is stored
\*             in _selectionId
\*   shrink    _moveEndLineSelectionShrink
\*   threw     the call ended in an error
\*   gate      what shouldAutoIndent returned
\*   askedEnter, askedGood   the line the enter oracle was asked at (0: not
\*             asked) and the lines the good-indent oracle was asked for
\*   enterAnswer, enterRet   the answer of the enter oracle and what the
\*             enter rule made of it (ret of lines 824, 832)
\*   answered, deltas        as in the indent rule loop; an offset of the
\*             enter rule is measured at line 0
Outcome(ops, keepToken, shrink, threw, gate, ai) ==
    [ops |-> ops, keepToken |-> keepToken, shrink |-> shrink, threw |-> threw,
     gate |-> gate, askedEnter |-> ai.askedEnter, askedGood |-> ai.askedGood,
     enterAnswer |-> ai.enterAnswer, enterRet |-> ai.enterRet,
     answered |-> ai.answered, deltas |-> ai.deltas]

\* No indentation oracle was asked.
NoAutoIndent ==
    [ops |-> <<>>, shrink |-> FALSE, threw |-> FALSE, askedEnter |-> 0, askedGood |-> {},
     enterAnswer |-> NoEnter, enterRet |-> Null, answered |-> {}, deltas |-> <<>>]

\* Lines 746-756: nothing to do, the selection is tracked.
BoundaryOutcome == Outcome(<<>>, TRUE, FALSE, FALSE, FALSE, NoAutoIndent)

\* Lines 893-897: the command that is not first in the batch.
NotFirstOutcome == Outcome(<<NullEditOp(Range(1, 1, 1, 1))>>, FALSE, FALSE, FALSE, FALSE, NoAutoIndent)

\* Where the enter oracle is asked and what the enter rule returns (lines
\* 824, 832).
EnterRule(lines, opts, isMovingDown, batch, enter, meta) ==
    LET srcStartLine == batch.startLineNumber
        srcEndLine == batch.endLineNumberExclusive - 1
        srcEndLineLen == getLineMaxColumn(lines, srcEndLine)
        text == getValueInRange(lines, Range(srcStartLine, 1, srcEndLine, srcEndLineLen))
        prevLine == batch.startLineNumber - 1
        nextLine == batch.endLineNumberExclusive
    IN  [asked |-> IF isMovingDown
                   THEN EnterQueryLineMovingDown(lines, srcStartLine, nextLine, text)
                   ELSE EnterQueryLineMovingUp(lines, srcStartLine, prevLine, text),
         ret |-> IF isMovingDown
                 THEN matchEnterRuleMovingDown(lines, opts, srcStartLine, nextLine, text, enter, meta)
                 ELSE matchEnterRuleMoveingUp(lines, opts, srcStartLine, prevLine, text, enter, meta)]

\* The indent rule loop over the affected lines of the batch (lines 867-890).
IndentRules(lines, s, opts, isMovingDown, batch, good) ==
    LET affectedStartLine == IF isMovingDown THEN batch.startLineNumber
                             ELSE batch.startLineNumber - 1
        affectedEndLine == IF isMovingDown THEN batch.endLineNumberExclusive
                           ELSE batch.endLineNumberExclusive - 1
    IN  IndentRulesFrom(lines, s, opts, isMovingDown, batch, good,
                        affectedStartLine, affectedEndLine)

\* The edits of an offset of the enter rule: none for null and for 0.
EnterRuleEdits(lines, s, opts, ret) ==
    IF ret # Null /\ ret[1] # 0
    THEN getIndentEditsOfMovingBlock(lines, s, opts, ret[1])
    ELSE [ops |-> <<>>, shrink |-> FALSE]

EnterRuleDeltas(ret) ==
    IF ret # Null /\ ret[1] # 0 THEN <<[line |-> 0, d |-> ret[1]]>> ELSE <<>>

\* The body of `if (this.shouldAutoIndent(model, s))` with the indent rule
\* loop run whether or not an enter rule matched (matchedOnEnterRule never
\* set).
AutoIndentEdits_AlwaysFallback(lines, opts, s, isMovingDown, batch, enter, meta, good) ==
    Only({[ops |-> ind.ops \o fb.ops, shrink |-> ind.shrink \/ fb.shrink, threw |-> fb.threw,
           askedEnter |-> er.asked, askedGood |-> fb.asked,
           enterAnswer |-> IF er.asked = 0 THEN NoEnter ELSE enter, enterRet |-> er.ret,
           answered |-> fb.answered,
           deltas |-> EnterRuleDeltas(er.ret) \o fb.deltas] :
             er \in {EnterRule(lines, opts, isMovingDown, batch, enter, meta)},
             ind \in {EnterRuleEdits(lines, s, opts,
                                     EnterRule(lines, opts, isMovingDown, batch, enter, meta).ret)},
             fb \in {IndentRules(lines, s, opts, isMovingDown, batch, good)}})

\* The body of `if (this.shouldAutoIndent(model, s))` (lines 820-891): the
\* enter rule, and the indent rules when it gave null.
AutoIndentEdits(lines, opts, s, isMovingDown, batch, enter, meta, good) ==
    Only({[ops |-> ind.ops \o fb.ops, shrink |-> ind.shrink \/ fb.shrink, threw |-> fb.threw,
           askedEnter |-> er.asked, askedGood |-> fb.asked,
           enterAnswer |-> IF er.asked = 0 THEN NoEnter ELSE enter, enterRet |-> er.ret,
           answered |-> fb.answered,
           deltas |-> EnterRuleDeltas(er.ret) \o fb.deltas] :
             er \in {EnterRule(lines, opts, isMovingDown, batch, enter, meta)},
             ind \in {EnterRuleEdits(lines, s, opts,
                                     EnterRule(lines, opts, isMovingDown, batch, enter, meta).ret)},
             fb \in {IF EnterRule(lines, opts, isMovingDown, batch, enter, meta).ret # Null
                     THEN NoIndentRules
                     ELSE IndentRules(lines, s, opts, isMovingDown, batch, good)}})

\* The first command of the batch with the indentation run without asking
\* shouldAutoIndent.
FirstOutcome_NoGate(lines, opts, s, isMovingDown, batch, gate, enter, meta, good) ==
    Only({Outcome(<<RemoveEdit(lines, isMovingDown, batch), InsertEdit(lines, isMovingDown, batch)>>
                      \o ai.ops, FALSE, ai.shrink, ai.threw, gate, ai) :
             ai \in {AutoIndentEdits(lines, opts, s, isMovingDown, batch, enter, meta, good)}})

\* Lines 778-892: the first command of the batch: the removal, the insertion
\* and, behind shouldAutoIndent, the indentation.
FirstOutcome(lines, opts, s, isMovingDown, batch, gate, enter, meta, good) ==
    Only({Outcome(<<RemoveEdit(lines, isMovingDown, batch), InsertEdit(lines, isMovingDown, batch)>>
                      \o ai.ops, FALSE, ai.shrink, ai.threw, gate, ai) :
             ai \in {IF gate
                     THEN AutoIndentEdits(lines, opts, s, isMovingDown, batch, enter, meta, good)
                     ELSE NoAutoIndent}})

\* getEditOperations with the batch guard ahead of the boundary checks, as in
\* the revision before (lines 393-410): a command that is not first adds its
\* no-op edit at the boundary too.
getEditOperations_GuardFirst(lines, opts, s, isFirstInBatch, isMovingDown, batch, gate, enter, meta, good) ==
    IF ~isFirstInBatch
    THEN NotFirstOutcome
    ELSE IF IsBoundary(lines, isMovingDown, batch)
    THEN BoundaryOutcome
    ELSE FirstOutcome(lines, opts, s, isMovingDown, batch, gate, enter, meta, good)

\* getEditOperations without the batch guard, as in the first revision
\* (lines 44-112): every command of the batch computes the move.
getEditOperations_NoGuard(lines, opts, s, isFirstInBatch, isMovingDown, batch, gate, enter, meta, good) ==
    IF IsBoundary(lines, isMovingDown, batch)
    THEN BoundaryOutcome
    ELSE FirstOutcome(lines, opts, s, isMovingDown, batch, gate, enter, meta, good)

\* getEditOperations (lines 742-898).
getEditOperations(lines, opts, s, isFirstInBatch, isMovingDown, batch, gate, enter, meta, good) ==
    IF IsBoundary(lines, isMovingDown, batch)
    THEN BoundaryOutcome
    ELSE IF isFirstInBatch
    THEN FirstOutcome(lines, opts, s, isMovingDown, batch, gate, enter, meta, good)
    ELSE NotFirstOutcome

\* Selection.setEndPosition
setEndPosition(sel, endLineNumber, endColumn) ==
    Range(sel.sl, sel.sc, endLineNumber, endColumn)

\* computeCursorState that returns the tracked selection, as upstream of the
\* line shift of lines 1053-1055.
computeCursorState_Tracked(selection, isMovingDown, moveEndLineSelectionShrink, tracked) ==
    IF moveEndLineSelectionShrink /\ tracked.sl < tracked.el
    THEN setEndPosition(tracked, tracked.el, 2)
    ELSE tracked

\* computeCursorState (lines 1046-1058); `tracked` is what
\* helper.getTrackedSelection returned.
computeCursorState(selection, isMovingDown, moveEndLineSelectionShrink, tracked) ==
    LET result1 == tracked
        result2 == IF moveEndLineSelectionShrink /\ result1.sl < result1.el
                   THEN setEndPosition(result1, result1.el, 2)
                   ELSE result1
        offset == IF isMovingDown THEN 1 ELSE -1
        result3 == selection
    IN  Range(result3.sl + offset, result3.sc, result3.el + offset, result3.ec)

\* ------------------------------------------------------------------- state

VARIABLES
    lines,          \* the document
    orig,           \* the document before the first move
    moves,          \* 1 in the first move, 2 in the move back
    isMovingDown,   \* _isMovingDown of the commands of this move
    autoIndent,     \* _autoIndent
    options,        \* model.getOptions()
    batch,          \* _batch, a LineRange
    cmds,           \* the commands of this move, in document order
    tracked,        \* the selections handed to trackSelection; a token is an index
    phase,          \* "edit", "applied", "rejected"
    call            \* a single call of one method: its inputs and its result

vars == <<lines, orig, moves, isMovingDown, autoIndent, options, batch, cmds, tracked, phase, call>>

\* _selectionId = null
NoToken == 0

NoSelection == Range(0, 0, 0, 0)

\* No single call is looked at: the commands run inside a transaction.
NoCall == [fn |-> "none", done |-> TRUE]

LineRange(startLineNumber, endLineNumberExclusive) ==
    [startLineNumber |-> startLineNumber, endLineNumberExclusive |-> endLineNumberExclusive]

\* The constructor (lines 725-740).
NewCommand(selection, isFirstInBatch) ==
    [selection |-> selection, isFirstInBatch |-> isFirstInBatch,
     selectionId |-> NoToken, moveEndLineSelectionShrink |-> FALSE,
     pc |-> "new", ops |-> <<>>, gate |-> FALSE, askedEnter |-> 0, askedGood |-> {},
     enterAnswer |-> NoEnter, enterRet |-> Null, answered |-> {}, deltas |-> <<>>,
     result |-> NoSelection]

\* The documents.
RECURSIVE Documents(_)
Documents(n) ==
    IF n = 0 THEN {<<>>}
    ELSE {Append(d, l) : d \in Documents(n - 1), l \in LineSet}

\* The selections over the lines a..b: from column 1 to column 1, or from
\* the end of line a to the end of line b (a caret when a = b).
SelectionsOn(doc, a, b) ==
    {Range(a, 1, b, 1), Range(a, getLineMaxColumn(doc, a), b, getLineMaxColumn(doc, b))}

\* The selections of the commands of one batch s..e: consecutive selections
\* that cover the lines of the batch, one command each.
RECURSIVE BatchSelections(_, _, _)
BatchSelections(doc, s, e) ==
    {<<sel>> : sel \in SelectionsOn(doc, s, e)}
    \cup UNION {{<<sel>> \o rest : sel \in SelectionsOn(doc, s, m),
                                  rest \in BatchSelections(doc, m + 1, e)} : m \in s..(e - 1)}

Commands(sels) == [k \in 1..Len(sels) |-> NewCommand(sels[k], k = 1)]

Init ==
    \E n \in 1..MaxLines :
      \E doc \in Documents(n) :
        \E s \in 1..n :
          \E e \in s..n :
            \E sels \in BatchSelections(doc, s, e) :
              /\ lines = doc
              /\ orig = doc
              /\ moves = 1
              /\ isMovingDown \in BOOLEAN
              /\ autoIndent \in StrategySet
              /\ options \in OptionsSet
              /\ batch = LineRange(s, e + 1)
              /\ cmds = Commands(sels)
              /\ tracked = <<>>
              /\ phase = "edit"
              /\ call = NoCall

\* The answers of the tokenizer and the language configuration that
\* shouldAutoIndent reads; it is called by the first command of a batch that
\* is not at the boundary only.
GateAnswers(c) ==
    IF cmds[c].isFirstInBatch /\ ~IsBoundary(lines, isMovingDown, batch)
    THEN {shouldAutoIndent(autoIndent, cheap, ls, le, rules) :
             cheap \in BOOLEAN, ls \in {"ts"},
             le \in (IF cmds[c].selection.sl = cmds[c].selection.el THEN {"ts"} ELSE {"ts", "html"}),
             rules \in {"null", "rules"}}
    ELSE {FALSE}

\* What matchEnterRuleMovingDown or matchEnterRuleMoveingUp returns for the
\* batch under an answer of the enter oracle and of getIndentMetadata.
MatchEnterRule(enter, meta) ==
    LET srcStartLine == batch.startLineNumber
        srcEndLine == batch.endLineNumberExclusive - 1
        text == getValueInRange(lines, Range(srcStartLine, 1, srcEndLine,
                                             getLineMaxColumn(lines, srcEndLine)))
    IN  IF isMovingDown
        THEN matchEnterRuleMovingDown(lines, options, srcStartLine,
                                      batch.endLineNumberExclusive, text, enter, meta)
        ELSE matchEnterRuleMoveingUp(lines, options, srcStartLine,
                                     batch.startLineNumber - 1, text, enter, meta)

\* The answers of the indentation oracles to one call of getEditOperations,
\* which asks them only behind the gate: one answer of the enter oracle for
\* every result the enter rule can have, and, for the result null (which a
\* null enter action always gives), every answer of the good-indent oracle
\* for the affected lines.
OracleAnswers(gate) ==
    LET affected == IF isMovingDown
                    THEN batch.startLineNumber..batch.endLineNumberExclusive
                    ELSE (batch.startLineNumber - 1)..(batch.endLineNumberExclusive - 1)
        noGood == [i \in affected |-> Null]
        pairs == [enter : EnterActionSet, meta : IndentMetadataSet]
        rets == {MatchEnterRule(p.enter, p.meta) : p \in pairs} \ {Null}
        reps == {CHOOSE p \in pairs : MatchEnterRule(p.enter, p.meta) = r : r \in rets}
    IN  IF gate
        THEN {[enter |-> p.enter, meta |-> p.meta, good |-> noGood] : p \in reps}
             \cup [enter : {NoEnter}, meta : {"null"}, good : [affected -> GoodIndentSet]]
        ELSE [enter : {NoEnter}, meta : {"null"}, good : {noGood}]

\* The engine hands the builder to the next command: getEditOperations.
GetEditOperations(c) ==
    /\ phase = "edit"
    /\ cmds[c].pc = "new"
    /\ \A k \in 1..(c - 1) : cmds[k].pc # "new"
    /\ \E gate \in GateAnswers(c) :
         \E a \in OracleAnswers(gate) :
           \E out \in {getEditOperations(lines, options, cmds[c].selection,
                                         cmds[c].isFirstInBatch, isMovingDown, batch,
                                         gate, a.enter, a.meta, a.good)} :
               /\ tracked' = Append(tracked, cmds[c].selection)
               /\ cmds' = [cmds EXCEPT ![c] =
                     [@ EXCEPT !.pc = IF out.threw THEN "threw" ELSE "edited",
                               !.ops = out.ops,
                               !.selectionId = IF out.keepToken THEN Len(tracked) + 1 ELSE NoToken,
                               !.moveEndLineSelectionShrink = out.shrink,
                               !.gate = out.gate,
                               !.askedEnter = out.askedEnter,
                               !.askedGood = out.askedGood,
                               !.enterAnswer = out.enterAnswer,
                               !.enterRet = out.enterRet,
                               !.answered = out.answered,
                               !.deltas = out.deltas]]
    /\ UNCHANGED <<lines, orig, moves, isMovingDown, autoIndent, options, batch, phase, call>>

\* The edits of the transaction: those of the commands that did not throw,
\* in command order.
RECURSIVE EditsFrom(_, _)
EditsFrom(cs, k) ==
    IF k > Len(cs) THEN <<>>
    ELSE (IF cs[k].pc = "threw" THEN <<>> ELSE cs[k].ops) \o EditsFrom(cs, k + 1)

AllEdits(cs) == EditsFrom(cs, 1)

Validated(edits) == [i \in 1..Len(edits) |-> [edits[i] EXCEPT !.range = ValidateRange(lines, @)]]

\* All commands have spoken: the engine applies the edits as one transaction,
\* or rejects them when two of them overlap.
PushEditOperations ==
    /\ phase = "edit"
    /\ \A k \in 1..Len(cmds) : cmds[k].pc # "new"
    /\ IF HasOverlap(Validated(AllEdits(cmds)))
       THEN /\ phase' = "rejected"
            /\ UNCHANGED lines
       ELSE /\ phase' = "applied"
            /\ lines' = ApplyEdits(lines, AllEdits(cmds))
    /\ UNCHANGED <<orig, moves, isMovingDown, autoIndent, options, batch, cmds, tracked, call>>

\* helper.getTrackedSelection(id) of a token of this transaction.  A command
\* holds a token only when the batch is at the boundary, and then the
\* transaction has no edit: the selection is where it was.
getTrackedSelection(id) == tracked[id]

\* After the transaction: computeCursorState of the next command.
ComputeCursorState(c) ==
    /\ phase = "applied"
    /\ cmds[c].pc = "edited"
    /\ \A k \in 1..(c - 1) : cmds[k].pc # "edited"
    /\ cmds[c].selectionId # NoToken
    /\ cmds' = [cmds EXCEPT ![c] =
          [@ EXCEPT !.pc = "resolved",
                    !.result = computeCursorState(cmds[c].selection, isMovingDown,
                                                  cmds[c].moveEndLineSelectionShrink,
                                                  getTrackedSelection(cmds[c].selectionId))]]
    /\ UNCHANGED <<lines, orig, moves, isMovingDown, autoIndent, options, batch, tracked, phase, call>>

\* computeCursorState with _selectionId = null: the lookup of a token that
\* was never handed out either answers some selection or fails.
ComputeCursorStateNoToken(c) ==
    /\ phase = "applied"
    /\ cmds[c].pc = "edited"
    /\ \A k \in 1..(c - 1) : cmds[k].pc # "edited"
    /\ cmds[c].selectionId = NoToken
    /\ \/ \E t \in 1..Len(tracked) :
            cmds' = [cmds EXCEPT ![c] =
               [@ EXCEPT !.pc = "resolved",
                         !.result = computeCursorState(cmds[c].selection, isMovingDown,
                                                       cmds[c].moveEndLineSelectionShrink,
                                                       tracked[t])]]
       \/ cmds' = [cmds EXCEPT ![c] = [@ EXCEPT !.pc = "failed"]]
    /\ UNCHANGED <<lines, orig, moves, isMovingDown, autoIndent, options, batch, tracked, phase, call>>

\* The user presses the opposite key: new commands for the selections the
\* last move returned, on the batch where it put the block.
MoveBack ==
    /\ phase = "applied"
    /\ moves = 1
    /\ ~IsBoundary(lines, isMovingDown, batch)
    /\ \A k \in 1..Len(cmds) : cmds[k].pc = "resolved"
    /\ LET offset == IF isMovingDown THEN 1 ELSE -1
       IN  /\ batch' = LineRange(batch.startLineNumber + offset, batch.endLineNumberExclusive + offset)
           /\ cmds' = [k \in 1..Len(cmds) |->
                          NewCommand(ValidateRange(lines, cmds[k].result), k = 1)]
    /\ isMovingDown' = ~isMovingDown
    /\ moves' = moves + 1
    /\ tracked' = <<>>
    /\ phase' = "edit"
    /\ UNCHANGED <<lines, orig, autoIndent, options, call>>

Next ==
    \/ \E c \in 1..Len(cmds) : GetEditOperations(c)
    \/ PushEditOperations
    \/ \E c \in 1..Len(cmds) : ComputeCursorState(c)
    \/ \E c \in 1..Len(cmds) : ComputeCursorStateNoToken(c)

Spec == Init /\ [][Next]_vars

\* A move and the move back, with auto-indent disabled by the strategy.
InitNoAutoIndent == Init /\ StrategyRank[autoIndent] < StrategyRank["Full"]

NextRoundTrip == Next \/ MoveBack

SpecRoundTrip == InitNoAutoIndent /\ [][NextRoundTrip]_vars

\* ------------------------------------------------- single calls of a method

\* The state around a single call: one command for the selection sel on the
\* document doc.
CallState(doc, sel, down, strategy, opts, c) ==
    /\ lines = doc
    /\ orig = doc
    /\ moves = 1
    /\ isMovingDown = down
    /\ autoIndent = strategy
    /\ options = opts
    /\ batch = LineRange(sel.sl, sel.el + 1)
    /\ cmds = Commands(<<sel>>)
    /\ tracked = <<sel>>
    /\ phase = "call"
    /\ call = c

\* The language ids of the tokenizer.
LanguageSet == {"ts", "html"}

\* A call of shouldAutoIndent(model, selection): what isCheapToTokenize and
\* getLanguageIdAtPosition(line, 1) answer for each line, and the
\* indentRulesSupport of each language.
GateCalls(n) ==
    [fn : {"shouldAutoIndent"}, done : {FALSE}, ret : {FALSE},
     cheap : [1..n -> BOOLEAN],
     lang : [1..n -> LanguageSet],
     rules : [LanguageSet -> {"null", "rules"}]]

InitGateCall ==
    \E n \in 1..MaxLines :
      \E s \in 1..n :
        \E e \in s..n :
          \E strategy \in DOMAIN StrategyRank :
            \E c \in GateCalls(n) :
              CallState([i \in 1..n |-> <<"a">>], Range(s, 1, e, 1), TRUE, strategy,
                        CHOOSE o \in OptionsSet : TRUE, c)

ShouldAutoIndentCall ==
    /\ call.fn = "shouldAutoIndent"
    /\ ~call.done
    /\ LET selection == cmds[1].selection
           languageAtSelectionStart == call.lang[selection.sl]
           languageAtSelectionEnd == call.lang[selection.el]
       IN  call' = [call EXCEPT
                      !.done = TRUE,
                      !.ret = shouldAutoIndent(autoIndent, call.cheap[selection.sl],
                                               languageAtSelectionStart, languageAtSelectionEnd,
                                               call.rules[languageAtSelectionStart])]
    /\ UNCHANGED <<lines, orig, moves, isMovingDown, autoIndent, options, batch, cmds, tracked, phase>>

\* The lines and options of a call of getIndentEditsOfMovingBlock: no
\* indentation, spaces, a line of spaces only, a tab; tabs or spaces of
\* width 2 or 4.
IndentLineSet == { <<"a">>, <<" ", "a">>, <<" ", " ", " ">>, <<"\t", "a">> }

IndentOptionsSet ==
    { [tabSize |-> w, indentSize |-> w, insertSpaces |-> b] : w \in {2, 4}, b \in BOOLEAN }

\* The offsets the callers hand in: a difference of two space counts that is
\* not 0 (lines 827, 835, 885).
OffsetSet == {-4, -2, -1, 1, 4}

RECURSIVE IndentDocuments(_)
IndentDocuments(n) ==
    IF n = 0 THEN {<<>>}
    ELSE {Append(d, l) : d \in IndentDocuments(n - 1), l \in IndentLineSet}

InitIndentCall ==
    \E n \in 1..MaxLines :
      \E doc \in IndentDocuments(n) :
        \E s \in 1..n :
          \E e \in s..n :
            \E sel \in SelectionsOn(doc, s, e) :
              \E opts \in IndentOptionsSet :
                \E offset \in OffsetSet :
                  CallState(doc, sel, TRUE, "Full", opts,
                            [fn |-> "getIndentEditsOfMovingBlock", done |-> FALSE,
                             offset |-> offset, ret |-> [ops |-> <<>>, shrink |-> FALSE]])

GetIndentEditsOfMovingBlockCall ==
    /\ call.fn = "getIndentEditsOfMovingBlock"
    /\ ~call.done
    /\ call' = [call EXCEPT
                  !.done = TRUE,
                  !.ret = getIndentEditsOfMovingBlock(lines, cmds[1].selection, options,
                                                      call.offset)]
    /\ UNCHANGED <<lines, orig, moves, isMovingDown, autoIndent, options, batch, cmds, tracked, phase>>

\* A call of computeCursorState(model, helper) after the transaction: the
\* flag getEditOperations left in _moveEndLineSelectionShrink (set only away
\* from the boundary and for a selection that ends inside the indentation of
\* its last line, line 1036)
\* and the selection helper.getTrackedSelection answers.
InitCursorCall ==
    \E n \in 1..MaxLines :
      \E s \in 1..n :
        \E e \in s..n :
          LET doc == [i \in 1..n |-> <<" ", "b">>]
          IN  \E sel \in SelectionsOn(doc, s, e) :
                \E ts \in 1..n :
                  \E te \in ts..n :
                    \E t \in SelectionsOn(doc, ts, te) :
                      \E down \in BOOLEAN :
                        \E shrink \in BOOLEAN :
                          /\ shrink => /\ sel.ec <= Len(getLeadingWhitespace(doc[sel.el])) + 1
                                       /\ ~IsBoundary(doc, down, LineRange(s, e + 1))
                          /\ CallState(doc, sel, down, "Full", CHOOSE o \in OptionsSet : TRUE,
                                       [fn |-> "computeCursorState", done |-> FALSE,
                                        moveEndLineSelectionShrink |-> shrink,
                                        tracked |-> t, ret |-> NoSelection])

ComputeCursorStateCall ==
    /\ call.fn = "computeCursorState"
    /\ ~call.done
    /\ call' = [call EXCEPT
                  !.done = TRUE,
                  !.ret = computeCursorState(cmds[1].selection, isMovingDown,
                                             call.moveEndLineSelectionShrink, call.tracked)]
    /\ UNCHANGED <<lines, orig, moves, isMovingDown, autoIndent, options, batch, cmds, tracked, phase>>

\* The first lines of a moved block a call of parseEnterResult reads: blank,
\* text that is the appended text, text that holds it further in, the same
\* behind indentation.
EnterLineSet == { <<>>, <<"b">>, <<"a", "b">>, <<" ", "b">>, <<" ", " ", "a", "b">> }

\* A call of parseEnterResult(model, indentConverter, tabSize, line, enter):
\* the line, the answer of getEnterAction and of getIndentMetadata.
InitEnterCall ==
    \E n \in 1..MaxLines :
      \E line \in 1..n :
        \E l \in EnterLineSet :
          \E enter \in EnterActionSet :
            \E meta \in IndentMetadataSet :
              \E opts \in IndentOptionsSet :
                CallState([i \in 1..n |-> IF i = line THEN l ELSE <<"a">>],
                          Range(line, 1, line, 1), TRUE, "Full", opts,
                          [fn |-> "parseEnterResult", done |-> FALSE, line |-> line,
                           enter |-> enter, meta |-> meta, ret |-> Null])

ParseEnterResultCall ==
    /\ call.fn = "parseEnterResult"
    /\ ~call.done
    /\ call' = [call EXCEPT
                  !.done = TRUE,
                  !.ret = parseEnterResult(lines, options, call.line, call.enter, call.meta)]
    /\ UNCHANGED <<lines, orig, moves, isMovingDown, autoIndent, options, batch, cmds, tracked, phase>>

InitCalls == InitGateCall \/ InitIndentCall \/ InitCursorCall \/ InitEnterCall

NextCalls ==
    \/ ShouldAutoIndentCall
    \/ GetIndentEditsOfMovingBlockCall
    \/ ComputeCursorStateCall
    \/ ParseEnterResultCall

SpecCalls == InitCalls /\ [][NextCalls]_vars

\* ------------------------------------ getEditOperation (test/browser/testCommand.ts)

\* The argument forceMoveMarkers of the builder's methods, with its default
\* (lines 74, 82): "omitted", "true" or "false" as the command wrote it.
ForceMoveMarkersArg(forceMoveMarkers) ==
    IF forceMoveMarkers = "omitted" THEN FALSE ELSE forceMoveMarkers = "true"

\* addEditOperation of the helper's builder (lines 74-80): the operations
\* after the call.
addEditOperation(operations, range, text, forceMoveMarkers) ==
    Append(operations, [range |-> range, text |-> text,
                        forceMoveMarkers |-> ForceMoveMarkersArg(forceMoveMarkers)])

\* addTrackedEditOperation that records nothing.
addTrackedEditOperation_NotRecorded(operations, range, text, forceMoveMarkers) ==
    operations

\* addTrackedEditOperation of the helper's builder (lines 82-88).
addTrackedEditOperation(operations, range, text, forceMoveMarkers) ==
    Append(operations, [range |-> range, text |-> text,
                        forceMoveMarkers |-> ForceMoveMarkersArg(forceMoveMarkers)])

\* trackSelection of the helper's builder (lines 91-93): the token it returns.
trackSelection(selection) == ""

\* The text a command hands to the builder: null, or a string.
NullText == [isNull |-> TRUE, value |-> <<>>]
TextOf(str) == [isNull |-> FALSE, value |-> str]

\* The calls a command makes on the builder: an edit that removes two lines
\* or one that inserts text, through either method, with forceMoveMarkers
\* given or left out, and the tracking of a selection.
BuilderCallSet ==
    [method : {"addEditOperation", "addTrackedEditOperation"},
     range : {Range(1, 1, 2, 1)}, text : {NullText},
     forceMoveMarkers : {"omitted", "true", "false"}]
    \cup
    [method : {"addEditOperation", "addTrackedEditOperation"},
     range : {Range(1, 1, 1, 1)}, text : {TextOf(<<"x">>)},
     forceMoveMarkers : {"omitted", "true", "false"}]
    \cup
    [method : {"trackSelection"},
     range : {Range(1, 1, 1, 2)}, text : {NullText},
     forceMoveMarkers : {"omitted"}]

\* What a command's getEditOperations does with the builder: its calls, in
\* order.
RECURSIVE BuilderCalls(_)
BuilderCalls(n) ==
    IF n = 0 THEN {<<>>}
    ELSE {Append(cs, b) : cs \in BuilderCalls(n - 1), b \in BuilderCallSet}

\* A call of getEditOperation(model, command) (lines 71-73): no operations
\* yet, the command about to run.
InitGetEditOperation ==
    \E n \in 0..MaxCalls :
      \E script \in BuilderCalls(n) :
        CallState(<<<<"a">>, <<"b">>>>, Range(1, 1, 1, 2), TRUE, "Full",
                  CHOOSE o \in OptionsSet : TRUE,
                  [fn |-> "getEditOperation", done |-> FALSE, script |-> script, at |-> 1,
                   operations |-> <<>>, tokens |-> <<>>, ret |-> <<>>])

\* The command is inside getEditOperations (line 95) and makes its next call
\* on the builder.
CommandCalls(method) ==
    /\ call.fn = "getEditOperation"
    /\ ~call.done
    /\ call.at <= Len(call.script)
    /\ call.script[call.at].method = method

AddEditOperation ==
    /\ CommandCalls("addEditOperation")
    /\ LET b == call.script[call.at]
       IN  call' = [call EXCEPT
                      !.at = @ + 1,
                      !.operations = addEditOperation(@, b.range, b.text, b.forceMoveMarkers)]
    /\ UNCHANGED <<lines, orig, moves, isMovingDown, autoIndent, options, batch, cmds, tracked, phase>>

AddTrackedEditOperation ==
    /\ CommandCalls("addTrackedEditOperation")
    /\ LET b == call.script[call.at]
       IN  call' = [call EXCEPT
                      !.at = @ + 1,
                      !.operations = addTrackedEditOperation(@, b.range, b.text, b.forceMoveMarkers)]
    /\ UNCHANGED <<lines, orig, moves, isMovingDown, autoIndent, options, batch, cmds, tracked, phase>>

TrackSelection ==
    /\ CommandCalls("trackSelection")
    /\ call' = [call EXCEPT
                  !.at = @ + 1,
                  !.tokens = Append(@, trackSelection(call.script[call.at].range))]
    /\ UNCHANGED <<lines, orig, moves, isMovingDown, autoIndent, options, batch, cmds, tracked, phase>>

\* The command has returned: getEditOperation returns the operations (line 96).
GetEditOperationReturn ==
    /\ call.fn = "getEditOperation"
    /\ ~call.done
    /\ call.at > Len(call.script)
    /\ call' = [call EXCEPT !.done = TRUE, !.ret = call.operations]
    /\ UNCHANGED <<lines, orig, moves, isMovingDown, autoIndent, options, batch, cmds, tracked, phase>>

NextGetEditOperation ==
    \/ AddEditOperation
    \/ AddTrackedEditOperation
    \/ TrackSelection
    \/ GetEditOperationReturn

SpecGetEditOperation == InitGetEditOperation /\ [][NextGetEditOperation]_vars

\* ------------------------------------------------------------------ claims

\* The batch of the move in progress is at the boundary of the document.
AtBoundary == IsBoundary(lines, isMovingDown, batch)

\* Command c has run getEditOperations.
HasEdited(c) == cmds[c].pc # "new"

\* The indentation edits of command c: what the first command adds after
\* the removal and the insertion.
IndentOps(c) ==
    IF cmds[c].isFirstInBatch /\ Len(cmds[c].ops) > 2
    THEN SubSeq(cmds[c].ops, 3, Len(cmds[c].ops))
    ELSE <<>>

NoReindent == \A c \in 1..Len(cmds) : IndentOps(c) = <<>>

\* An edit that changes nothing: an empty range and no text.
IsNoOp(e) == IsEmptyRange(e.range) /\ e.text = <<>>

\* The document with the block s..e one line further down, the line it
\* passed one line further up.
MovedDown(doc, s, e) ==
    [i \in 1..Len(doc) |->
        IF i = s THEN doc[e + 1] ELSE IF i > s /\ i <= e + 1 THEN doc[i - 1] ELSE doc[i]]

\* The document with the block s..e one line further up.
MovedUp(doc, s, e) ==
    [i \in 1..Len(doc) |->
        IF i = e THEN doc[s - 1] ELSE IF i >= s - 1 /\ i < e THEN doc[i + 1] ELSE doc[i]]

\* C1: once the edits of a move down of the block s..e (not at the last line,
\* auto-indent off) are applied, line s is the old line e+1, the lines
\* s+1..e+1 are the old lines s..e and the other lines are as they were.
C1_MoveDownNetEffect ==
    (phase = "applied" /\ moves = 1 /\ isMovingDown /\ ~AtBoundary /\ ~cmds[1].gate)
        => lines = MovedDown(orig, batch.startLineNumber, batch.endLineNumberExclusive - 1)

\* C2: once the edits of a move up of the block s..e (s > 1, auto-indent off)
\* are applied, the lines s-1..e-1 are the old lines s..e, line e is the old
\* line s-1 and the other lines are as they were.
C2_MoveUpNetEffect ==
    (phase = "applied" /\ moves = 1 /\ ~isMovingDown /\ ~AtBoundary /\ ~cmds[1].gate)
        => lines = MovedUp(orig, batch.startLineNumber, batch.endLineNumberExclusive - 1)

\* C3: with auto-indent disabled, a move down of a block followed by a move
\* up of the block at its new position gives back the original document.
C3_RoundTrip ==
    (moves = 2 /\ phase = "applied" /\ ~isMovingDown) => lines = orig

\* C4: at the boundary (move down with the batch on the last line, move up
\* with the batch on line 1) getEditOperations adds no edit, whether the
\* command is first in the batch or not, and the document stays as it was.
C4_BoundaryNoEdit ==
    AtBoundary =>
        /\ \A c \in 1..Len(cmds) : HasEdited(c) => cmds[c].ops = <<>>
        /\ lines = orig

C4_Witness ==
    /\ AtBoundary /\ phase = "applied" /\ lines = orig
    /\ \E c \in 1..Len(cmds) : ~cmds[c].isFirstInBatch /\ HasEdited(c) /\ cmds[c].ops = <<>>
    /\ \E c \in 1..Len(cmds) : cmds[c].isFirstInBatch /\ HasEdited(c) /\ cmds[c].ops = <<>>

\* C5: at the boundary computeCursorState returns the selection the command
\* was made for.
C5_BoundarySelection ==
    \A c \in 1..Len(cmds) :
        (AtBoundary /\ cmds[c].pc = "resolved") => cmds[c].result = cmds[c].selection

\* C6: in a move that is not at the boundary and adds no indentation edit,
\* the selection computeCursorState returns is the command's selection one
\* line down (move down) or up (move up), columns unchanged.
C6_SelectionDisplacement ==
    \A c \in 1..Len(cmds) :
        (~AtBoundary /\ NoReindent /\ cmds[c].pc = "resolved") =>
            LET d == IF isMovingDown THEN 1 ELSE -1
                s == cmds[c].selection
            IN  cmds[c].result = Range(s.sl + d, s.sc, s.el + d, s.ec)

C6_Witness ==
    \E c \in 1..Len(cmds) :
        /\ ~AtBoundary /\ NoReindent /\ cmds[c].pc = "resolved"
        /\ ~isMovingDown
        /\ cmds[c].selection.sc > 1 /\ cmds[c].selection.sl < cmds[c].selection.el
        /\ cmds[c].result.sl = cmds[c].selection.sl - 1

\* C7: once every command of the batch has added its edits, no two edits of
\* the transaction overlap.
C7_BatchNonOverlap ==
    (\A c \in 1..Len(cmds) : HasEdited(c)) => ~HasOverlap(AllEdits(cmds))

\* C8: in a move that is not at the boundary, a command that is not first in
\* the batch adds exactly one edit, the no-op (empty range at line 1 column 1,
\* null text), which leaves the document as it is; the first command adds the
\* removal and the insertion, and it alone adds edits that are no no-op.
C8_BatchGuard ==
    ~AtBoundary =>
        \A c \in 1..Len(cmds) :
            (HasEdited(c) /\ moves = 1) =>
                IF cmds[c].isFirstInBatch
                THEN /\ Len(cmds[c].ops) >= 2
                     /\ cmds[c].ops[1] = RemoveEdit(orig, isMovingDown, batch)
                     /\ cmds[c].ops[2] = InsertEdit(orig, isMovingDown, batch)
                ELSE /\ cmds[c].ops = <<NullEditOp(Range(1, 1, 1, 1))>>
                     /\ ApplyEdits(orig, cmds[c].ops) = orig
                     /\ \A i \in 1..Len(cmds[c].ops) : IsNoOp(cmds[c].ops[i])

C8_Witness ==
    /\ ~AtBoundary /\ Len(cmds) >= 2
    /\ \A c \in 1..Len(cmds) : HasEdited(c)
    /\ Cardinality({c \in 1..Len(cmds) : \E i \in 1..Len(cmds[c].ops) : ~IsNoOp(cmds[c].ops[i])}) = 1

\* C9: the token computeCursorState hands to getTrackedSelection is the one
\* trackSelection returned for the command's selection, never null.
C9_TokenResolvable ==
    \A c \in 1..Len(cmds) :
        HasEdited(c) =>
            /\ cmds[c].selectionId # NoToken
            /\ cmds[c].selectionId \in 1..Len(tracked)
            /\ tracked[cmds[c].selectionId] = cmds[c].selection

\* C10: the edits one call of getEditOperations adds do not overlap one
\* another.
C10_CommandEditsDisjoint ==
    \A c \in 1..Len(cmds) : HasEdited(c) => ~HasOverlap(cmds[c].ops)

\* The first command of a move that is not at the boundary has run
\* getEditOperations: the command that computes the move.
IsMover(c) == cmds[c].isFirstInBatch /\ HasEdited(c) /\ ~AtBoundary /\ moves = 1

\* C11: when shouldAutoIndent answers false (strategy below Full, start line
\* not cheap to tokenize, two languages, no indent rules), the first command
\* of a move that is not at the boundary adds exactly the removal and the
\* insertion, no indentation edit, asks neither the enter oracle nor the
\* good-indent oracle, and ends without an error.
C11_GateOffRawMove ==
    \A c \in 1..Len(cmds) :
        (IsMover(c) /\ ~cmds[c].gate) =>
            /\ cmds[c].ops = <<RemoveEdit(orig, isMovingDown, batch),
                               InsertEdit(orig, isMovingDown, batch)>>
            /\ IndentOps(c) = <<>>
            /\ cmds[c].askedEnter = 0
            /\ cmds[c].askedGood = {}
            /\ cmds[c].pc # "threw"

C11_Witness ==
    \E c \in 1..Len(cmds) :
        /\ IsMover(c) /\ ~cmds[c].gate
        /\ autoIndent = "Full"
        /\ cmds[c].selection.sl < cmds[c].selection.el
        /\ Len(cmds[c].ops) = 2
        /\ phase = "applied"

\* C12: shouldAutoIndent answers true exactly when the strategy is at least
\* Full, the selection's start line is cheap to tokenize, the language id at
\* (start line, 1) is the one at (end line, 1), and that language has an
\* indent rules support that is not null.
C12_EligibilityGate ==
    (call.fn = "shouldAutoIndent" /\ call.done) =>
        LET selection == cmds[1].selection
        IN  call.ret <=>
                /\ StrategyRank[autoIndent] >= StrategyRank["Full"]
                /\ call.cheap[selection.sl]
                /\ call.lang[selection.sl] = call.lang[selection.el]
                /\ call.rules[call.lang[selection.sl]] # "null"

C12_Witness ==
    /\ call.fn = "shouldAutoIndent" /\ call.done /\ call.ret
    /\ cmds[1].selection.sl < cmds[1].selection.el
    /\ \E l \in LanguageSet : call.rules[l] = "null"
    /\ \E i \in DOMAIN call.cheap : ~call.cheap[i]

\* The space count of the leading whitespace of line i of the document.
OldSpaceCnt(doc, opts, i) == getSpaceCnt(getLeadingWhitespace(doc[i]), opts.tabSize)

\* The edits of a list that start on line i.
EditsOnLine(ops, i) == {k \in 1..Len(ops) : ops[k].range.sl = i}

\* C13: getIndentEditsOfMovingBlock with the offset d gives every line of
\* the selection's span a replacement whitespace whose space count is the
\* line's old space count plus d, and every edit it adds covers the old
\* leading whitespace of its line (columns 1 to indent length + 1) and
\* nothing else.
C13_IndentDeltaApplied ==
    (call.fn = "getIndentEditsOfMovingBlock" /\ call.done) =>
        LET s == cmds[1].selection
            ops == call.ret.ops
        IN  /\ \A i \in s.sl..s.el :
                 \E k \in EditsOnLine(ops, i) :
                     getSpaceCnt(ops[k].text, options.tabSize)
                         = OldSpaceCnt(lines, options, i) + call.offset
            /\ \A k \in 1..Len(ops) :
                 /\ ops[k].range.sl \in s.sl..s.el
                 /\ ops[k].range = Range(ops[k].range.sl, 1, ops[k].range.sl,
                                         Len(getLeadingWhitespace(lines[ops[k].range.sl])) + 1)

\* C14: when an offset handed to getIndentEditsOfMovingBlock would give a
\* line of the selection a negative space count, the command either ends in
\* an error or adds no indentation edit.
C14_NegativeIndentRejected ==
    \A c \in 1..Len(cmds) :
        IsMover(c) =>
            \A k \in 1..Len(cmds[c].deltas) :
                (\E i \in cmds[c].selection.sl..cmds[c].selection.el :
                     OldSpaceCnt(orig, options, i) + cmds[c].deltas[k].d < 0)
                => (cmds[c].pc = "threw" \/ IndentOps(c) = <<>>)

\* C15: when computeCursorState runs with _moveEndLineSelectionShrink set
\* and the tracked selection it looked up starts on a line before the line
\* it ends on, the selection it returns ends at column 2.
C15_ShrinkClamp ==
    (/\ call.fn = "computeCursorState" /\ call.done
     /\ call.moveEndLineSelectionShrink
     /\ call.tracked.sl < call.tracked.el)
    => call.ret.ec = 2

\* The line of the live document virtualModel.getLineContent(n) reads for
\* the batch of this move.
VirtualLine(n) ==
    VirtualSourceLine(isMovingDown, batch.startLineNumber, batch.endLineNumberExclusive - 1,
                      batch.startLineNumber - 1, batch.endLineNumberExclusive, n)

\* The document after the move of the batch.
PostMove ==
    IF isMovingDown
    THEN MovedDown(orig, batch.startLineNumber, batch.endLineNumberExclusive - 1)
    ELSE MovedUp(orig, batch.startLineNumber, batch.endLineNumberExclusive - 1)

\* C16: in the indent rule fallback, virtualModel.getLineContent(n) reads a
\* line of the document for every line number n of the document, and answers
\* the text line n has after the move: the moved text inside the affected
\* span, the line's own text outside it.
C16_VirtualLineContent ==
    \A c \in 1..Len(cmds) :
        (IsMover(c) /\ cmds[c].gate /\ cmds[c].askedGood # {}) =>
            \A n \in 1..Len(orig) :
                IF ValidLine(orig, VirtualLine(n))
                THEN getLineContent(orig, VirtualLine(n)) = PostMove[n]
                ELSE FALSE

\* The lines the move relocates.
BatchLines == batch.startLineNumber..(batch.endLineNumberExclusive - 1)

\* C17: every offset the first command matched (none of which would make a
\* space count negative) is applied to every line of the batch: each line of
\* the batch gets an indentation edit whose whitespace has the line's old
\* space count plus the offset.
C17_WholeBlockReindented ==
    \A c \in 1..Len(cmds) :
        (IsMover(c) /\ cmds[c].pc # "threw") =>
            \A k \in 1..Len(cmds[c].deltas) :
                LET d == cmds[c].deltas[k].d
                IN  (\A i \in BatchLines : OldSpaceCnt(orig, options, i) + d >= 0) =>
                        \A i \in BatchLines :
                            \E j \in EditsOnLine(IndentOps(c), i) :
                                getSpaceCnt(IndentOps(c)[j].text, options.tabSize)
                                    = OldSpaceCnt(orig, options, i) + d

\* The line the batch moves past.
PassedOverLine ==
    IF isMovingDown THEN batch.endLineNumberExclusive ELSE batch.startLineNumber - 1

C19_EnterRuleFirst ==
    \A c \in 1..Len(cmds) :
        (IsMover(c) /\ cmds[c].gate) =>
            /\ cmds[c].enterRet # Null =>
                   /\ cmds[c].askedGood = {}
                   /\ cmds[c].answered = {}
                   /\ cmds[c].enterRet = Some(0) => IndentOps(c) = <<>>
            /\ cmds[c].askedGood # {} => cmds[c].enterRet = Null

C19_Witness ==
    \E c \in 1..Len(cmds) :
        /\ IsMover(c) /\ cmds[c].gate
        /\ cmds[c].enterAnswer # NoEnter
        /\ cmds[c].enterRet = Some(0)
        /\ cmds[c].askedGood = {}
        /\ Len(cmds[c].ops) = 2
        /\ phase = "applied"

\* C20: behind the gate, when the enter oracle answers null (or is not
\* asked) and getGoodIndentForLine answers null for every affected line,
\* getEditOperations ends without an error and adds exactly the removal and
\* the insertion, no indentation edit.
C20_OracleNullFallsThrough ==
    \A c \in 1..Len(cmds) :
        (/\ IsMover(c) /\ cmds[c].gate
         /\ cmds[c].enterAnswer = NoEnter
         /\ cmds[c].answered = {}) =>
            /\ cmds[c].pc # "threw"
            /\ IndentOps(c) = <<>>
            /\ cmds[c].ops = <<RemoveEdit(orig, isMovingDown, batch),
                               InsertEdit(orig, isMovingDown, batch)>>

\* Both oracles were asked and answered null, on a block with indentation.
C20_Witness ==
    \E c \in 1..Len(cmds) :
        /\ IsMover(c) /\ cmds[c].gate
        /\ cmds[c].askedEnter # 0
        /\ cmds[c].enterAnswer = NoEnter
        /\ cmds[c].askedGood = BatchLines \cup {PassedOverLine}
        /\ cmds[c].answered = {}
        /\ \E i \in BatchLines : OldSpaceCnt(orig, options, i) > 0
        /\ Len(cmds[c].ops) = 2
        /\ phase = "applied"

\* A line without text: empty, or spaces and tabs only.
IsBlankLine(str) == \A k \in 1..Len(str) : IsWhitespace(str[k])

\* The nearest line at or above `from` that is not blank, 0 when every line
\* from 1 to `from` is blank.
NearestNonBlank(doc, from) ==
    LET found == {i \in 1..from : ~IsBlankLine(doc[i])}
    IN  IF found = {} THEN 0 ELSE CHOOSE i \in found : \A j \in found : j <= i

\* C21: behind the gate the enter oracle is asked at the end of one line:
\* moving down the line that follows the batch, moving up the nearest line
\* at or above the line before the batch that is not blank in the document;
\* moving up with blank lines only down to line 1 it is not asked at all.
C21_EnterQueryPosition ==
    \A c \in 1..Len(cmds) :
        (IsMover(c) /\ cmds[c].gate) =>
            cmds[c].askedEnter =
                IF isMovingDown
                THEN batch.endLineNumberExclusive
                ELSE NearestNonBlank(orig, batch.startLineNumber - 1)

\* A string without its leading spaces and tabs.
StripLeading(str) == SubSeq(str, Len(getLeadingWhitespace(str)) + 1, Len(str))

\* p is what s begins with.
IsPrefix(p, s) == Len(p) <= Len(s) /\ SubSeq(s, 1, Len(p)) = p

\* The prefix an enter action predicts for the new line: indentation and
\* appended text for None and Indent, the indentation alone for
\* IndentOutdent, the indentation one level back and the appended text for
\* Outdent.
PredictedPrefix(enter, opts) ==
    CASE enter.indentAction \in {"None", "Indent"} -> enter.indentation \o enter.appendText
      [] enter.indentAction = "IndentOutdent" -> enter.indentation
      [] enter.indentAction = "Outdent" ->
             unshiftIndent(enter.indentation, opts) \o enter.appendText

\* C22: parseEnterResult gives an offset only for an enter action that is
\* not null and only when the first line of the moved block, without its
\* leading whitespace, begins with the predicted prefix without its leading
\* whitespace; in every other case it gives null.
C22_EnterPrefixTest ==
    (call.fn = "parseEnterResult" /\ call.done /\ call.ret # Null) =>
        /\ call.enter # NoEnter
        /\ IsPrefix(StripLeading(PredictedPrefix(call.enter, options)),
                    StripLeading(getLineContent(lines, call.line)))

\* The indentation edits of command c that empty the indentation of the end
\* line of its selection.
EndLineEmptied(c) ==
    {j \in 1..Len(IndentOps(c)) :
        /\ IndentOps(c)[j].range.sl = cmds[c].selection.el
        /\ IndentOps(c)[j].text = <<>>}

\* C23: after getEditOperations _moveEndLineSelectionShrink is true exactly
\* when the command added an indentation edit on the end line of its
\* selection whose new indentation is the empty string, and the selection's
\* end column is at most the length of that line's old indentation plus 1;
\* for every other command (at the boundary, not first in the batch, gate
\* off, no such edit) it is false.
C23_ShrinkFlagCondition ==
    \A c \in 1..Len(cmds) :
        (HasEdited(c) /\ moves = 1) =>
            LET s == cmds[c].selection
            IN  cmds[c].moveEndLineSelectionShrink <=>
                    /\ EndLineEmptied(c) # {}
                    /\ s.ec <= Len(getLeadingWhitespace(orig[s.el])) + 1

\* The flag is set for a selection over two lines.
C23_Witness ==
    \E c \in 1..Len(cmds) :
        /\ IsMover(c)
        /\ cmds[c].moveEndLineSelectionShrink
        /\ cmds[c].selection.sl < cmds[c].selection.el
        /\ EndLineEmptied(c) # {}

\* C24: in a move that is not at the boundary, every range a command hands
\* to the builder lies inside the document: its lines between 1 and the
\* line count, its columns between 1 and the maximum column of their line.
C24_EditRangesInDocument ==
    \A c \in 1..Len(cmds) :
        (HasEdited(c) /\ ~AtBoundary /\ moves = 1) =>
            \A k \in 1..Len(cmds[c].ops) : RangeInDocument(orig, cmds[c].ops[k].range)

\* The edits among the builder calls of a command, in call order, each with
\* its range, its text and its forceMoveMarkers, false when left out.
RECURSIVE EditsPassed(_)
EditsPassed(script) ==
    IF script = <<>> THEN <<>>
    ELSE LET b == Head(script)
         IN  (IF b.method \in {"addEditOperation", "addTrackedEditOperation"}
              THEN <<[range |-> b.range, text |-> b.text,
                      forceMoveMarkers |-> (b.forceMoveMarkers = "true")]>>
              ELSE <<>>)
             \o EditsPassed(Tail(script))

\* C25: getEditOperation returns exactly the edits the command handed to
\* addEditOperation or addTrackedEditOperation during its one
\* getEditOperations call, in call order, each with its range, text and
\* forceMoveMarkers (false when left out); a trackSelection call adds no
\* entry and is answered with a token, and the document is what it was.
C25_GetEditOperationCollects ==
    (call.fn = "getEditOperation" /\ call.done) =>
        /\ call.ret = EditsPassed(call.script)
        /\ Len(call.tokens) = Cardinality({k \in 1..Len(call.script) :
                                              call.script[k].method = "trackSelection"})
        /\ lines = orig

\* A command that used both methods and tracked a selection in between, with
\* forceMoveMarkers left out once and given as true once.
C25_Witness ==
    /\ call.fn = "getEditOperation" /\ call.done
    /\ \E i, j, k \in 1..Len(call.script) :
         /\ i < j /\ j < k
         /\ call.script[i].method = "addTrackedEditOperation"
         /\ call.script[i].forceMoveMarkers = "omitted"
         /\ call.script[j].method = "trackSelection"
         /\ call.script[k].method = "addEditOperation"
         /\ call.script[k].forceMoveMarkers = "true"
    /\ Len(call.ret) = 2

====
